---------------------------- MODULE Spec2Model ----------------------------
(***************************************************************************)
(* hipBone: the Conjugate Gradient solver (libs/core/linearSolverCG.cpp)   *)
(* and the matrix-free local operator (src/localOperator.cpp).             *)
(*                                                                         *)
(* Each MPI rank is a host thread with one in-order device stream.  Host   *)
(* code enqueues device operations; the device executes the head of the    *)
(* stream; blocking host calls (norm2, innerProd, waitFor, MPI_Allreduce)  *)
(* are guarded steps.                                                      *)
(*                                                                         *)
(* dfloat values are exact rationals <<n, d>> in lowest terms, d > 0,      *)
(* extended with the IEEE specials <<1,0>> = +inf, <<-1,0>> = -inf and     *)
(* <<0,0>> = NaN.  Rounding and signed zeros are not represented.          *)
(***************************************************************************)
EXTENDS Integers, Sequences, FiniteSets, TLC

(***************************************************************************)
(* Bounds of the model                                                     *)
(***************************************************************************)
NP == 2          \* number of MPI ranks in comm
N == 1           \* owned entries per rank
Nhalo == 1       \* halo entries per rank
MaxIt == 2       \* largest MAXIT passed to Solve
MaxElems == 5    \* largest element-list length of the mesh
MaxSolves == 3   \* Solve calls made on one solver instance
NbSpan == 4      \* problem sizes tried on each side of a block boundary
MaxSize == 3     \* largest number of ranks in MPI_COMM_WORLD
MaxDev == 3      \* largest device count of a host

CG_BLOCKSIZE == 1024

Procs == 1..NP
Owned == 1..N
Ntotal == N + Nhalo
Slots == 1..Ntotal

(***************************************************************************)
(* dfloat arithmetic                                                       *)
(***************************************************************************)
Abs(i) == IF i < 0 THEN -i ELSE i

Sgn(i) == IF i < 0 THEN -1 ELSE IF i > 0 THEN 1 ELSE 0

RECURSIVE GCD(_, _)
GCD(a, b) == IF b = 0 THEN a ELSE GCD(b, a % b)

\* the dfloat with numerator n and denominator d
Frac(n, d) ==
  IF d = 0 THEN <<Sgn(n), 0>>
  ELSE LET g == GCD(Abs(n), Abs(d))
       IN  <<Sgn(n) * Sgn(d) * (Abs(n) \div g), Abs(d) \div g>>

Zero == <<0, 1>>
One == <<1, 1>>
NaN == <<0, 0>>

IsNaN(a) == a = NaN
IsFinite(a) == a[2] # 0

FNeg(a) == <<-a[1], a[2]>>

FMul(a, b) == Frac(a[1] * b[1], a[2] * b[2])

FAdd(a, b) ==
  IF a[2] = 0 /\ b[2] = 0
  THEN IF a = b THEN a ELSE NaN
  ELSE Frac(a[1] * b[2] + b[1] * a[2], a[2] * b[2])

FSub(a, b) == FAdd(a, FNeg(b))

FInv(b) == IF b[2] = 0 THEN (IF IsNaN(b) THEN NaN ELSE Zero) ELSE Frac(b[2], b[1])

FDiv(a, b) == FMul(a, FInv(b))

\* a < b; every comparison with NaN is false
FLt(a, b) ==
  /\ ~IsNaN(a)
  /\ ~IsNaN(b)
  /\ IF a[2] = 0 /\ b[2] = 0 THEN a[1] < b[1]
     ELSE IF a[2] = 0 THEN a[1] < 0
     ELSE IF b[2] = 0 THEN b[1] > 0
     ELSE a[1] * b[2] < b[1] * a[2]

FLeq(a, b) == ~IsNaN(a) /\ ~IsNaN(b) /\ ~FLt(b, a)

\* #define mymax(a,b) (((a)>(b))?(a):(b))
mymax(a, b) == IF FLt(b, a) THEN a ELSE b


(***************************************************************************)
(* State                                                                   *)
(***************************************************************************)
VARIABLES
  opKind,      \* which linear operator solver.Operator applies
  tol,         \* Solve argument tol
  MAXIT,       \* Solve argument MAXIT
  verbose,     \* Solve argument verbose
  x0, r0,      \* the caller's o_x and o_r at the call of Solve
  dev,         \* dev[p]: device memory o_x, o_r, o_p, o_Ap, o_tmprdotr
  tmprdotr,    \* tmprdotr[p]: pinned host staging buffer
  queue,       \* queue[p]: operations issued to the device stream, oldest first
  pc,          \* pc[p]: position of the host thread
  rdotr, rdotr1, rdotr2, alpha, beta, pAp, TOL, iter,   \* Solve's locals
  ret,         \* ret[p]: value returned by Solve
  contrib,     \* contrib[p]: value rank p has handed to the open collective
  mailbox,     \* mailbox[p]: result of a completed collective, not yet taken
  ncalls,      \* ncalls[p]: UpdateCG calls made by this Solve
  napply,      \* napply[p]: solver.Operator calls made by this Solve
  degenerate,  \* degenerate[p]: some iteration had pAp <= 0 or pAp NaN
  out,         \* out[p]: lines printed by rank p
  issued,      \* issued[p]: what the current UpdateCG call has done, in order
  rdotrHist,   \* rdotrHist[p]: rdotr at the top of each trial of this Solve
  collLog,     \* collLog[p]: collectives rank p has entered in this Solve
  nsolve,      \* nsolve[p]: number of the Solve call rank p is in
  opOther,     \* operator of the even-numbered Solve calls
  p0,          \* p0[p]: o_p at the call of Solve
  ret1, x1, r1,  \* result of the first Solve: returned count, o_x, o_r
  NlocalGatherElements, NglobalGatherElements,   \* mesh element counts
  pcLO,        \* "call" before hipBone_t::LocalOperator has run, then "ret"
  launches,    \* localOperatorKernel launches issued, in issue order
  executed,    \* number of those launches the device has run
  hitsLocal,   \* hitsLocal[k]: times o_localGatherElementList[k] was processed
  hitsGlobal,  \* hitsGlobal[k]: times o_globalGatherElementList[k] was processed
  nbN,         \* N of the solver whose block count is computed
  Nblocks,     \* Nblocks as computed by UpdateCG
  pcNB,        \* "call" before the block count is computed, then "ret"
  size,        \* number of ranks in MPI_COMM_WORLD
  hostname,    \* hostname[rk]: processor name of rank rk
  deviceCount, \* deviceCount[h]: occa::getDeviceCount on host h
  threadModel, \* setting THREAD MODEL
  DEVICE_NUMBER, \* setting DEVICE NUMBER
  pcDC,        \* pcDC[rk]: "call" before DeviceConfig has run on rank rk
  localRank, localSize, device_id   \* DeviceConfig's locals on each rank

cgvars == <<opKind, tol, MAXIT, verbose, x0, r0, dev, tmprdotr, queue, pc,
            rdotr, rdotr1, rdotr2, alpha, beta, pAp, TOL, iter, ret,
            contrib, mailbox, ncalls, napply, degenerate, out, issued,
            rdotrHist, collLog, nsolve, opOther, p0, ret1, x1, r1>>

lovars == <<NlocalGatherElements, NglobalGatherElements, pcLO, launches,
            executed, hitsLocal, hitsGlobal>>

nbvars == <<nbN, Nblocks, pcNB>>

dcvars == <<size, hostname, deviceCount, threadModel, DEVICE_NUMBER, pcDC,
            localRank, localSize, device_id>>

vars == <<cgvars, lovars, nbvars, dcvars>>

\* no value: an empty collective slot or mailbox
None == <<0, -1>>

\* content of memory that was allocated without a source
Uninit == <<1, -1>>

\* variant: the solver's vector length takes in the halo
cgN_Ntotal == Ntotal

\* N = _N: the length cg hands to linAlg.axpy, norm2, innerProd and the
\* updateCG kernel
cgN == N

(***************************************************************************)
(* The problem handed to Solve                                             *)
(***************************************************************************)
OpKinds == {"identity", "negIdentity", "zero", "diag"}
RhsKinds == {"zero", "ones", "ramp"}
X0Kinds == {"zero", "ones"}
Tols == {Zero, <<1, 2>>, <<2, 1>>}

\* global index of owned entry i of rank p
Gid(p, i) == (p - 1) * N + i

\* 1, 2, 1, 2, ... along the global index
Ramp(p, i) == <<2 - (Gid(p, i) % 2), 1>>

\* coefficient of the (diagonal) operator at owned entry i of rank p
Coef(kind, p, i) ==
  CASE kind = "identity" -> One
    [] kind = "negIdentity" -> <<-1, 1>>
    [] kind = "zero" -> Zero
    [] kind = "diag" -> Ramp(p, i)

HaloX == <<7, 1>>
HaloR == <<9, 1>>

RhsVec(kind, p) ==
  [i \in Slots |->
     IF i > N THEN HaloR
     ELSE CASE kind = "zero" -> Zero
            [] kind = "ones" -> One
            [] kind = "ramp" -> Ramp(p, i)]

X0Vec(kind, p) ==
  [i \in Slots |->
     IF i > N THEN HaloX
     ELSE CASE kind = "zero" -> Zero
            [] kind = "ones" -> One]

(***************************************************************************)
(* Device operations                                                       *)
(***************************************************************************)
RECURSIVE SumUpTo(_, _)
SumUpTo(f, n) == IF n = 0 THEN Zero ELSE FAdd(SumUpTo(f, n - 1), f[n])

\* sum over the first n entries of X[i]*Y[i]
Dot(n, X, Y) == SumUpTo([i \in 1..n |-> FMul(X[i], Y[i])], n)

\* queue entries
OpOperator(X, Y) == [op |-> "Operator", a |-> Zero, X |-> X, b |-> Zero, Y |-> Y]
OpAxpy(a, X, b, Y) == [op |-> "axpy", a |-> a, X |-> X, b |-> b, Y |-> Y]
OpSet(a, Y) == [op |-> "set", a |-> a, X |-> Y, b |-> Zero, Y |-> Y]
OpUpdateCG_r(a) == [op |-> "updateCG_r", a |-> a, X |-> "o_Ap", b |-> Zero, Y |-> "o_r"]
OpCopyTo == [op |-> "copyTo", a |-> Zero, X |-> "o_tmprdotr", b |-> Zero, Y |-> "tmprdotr"]
OpTag == [op |-> "tag", a |-> Zero, X |-> "", b |-> Zero, Y |-> ""]

\* the operator of the solver_t that rank p's current Solve call was given
OperatorOf(p) == IF nsolve[p] % 2 = 1 THEN opKind ELSE opOther

\* solver.Operator(o_q, o_Aq): o_Aq = A*o_q on the owned entries
ApplyOperator(p, m, e) ==
  [m EXCEPT ![e.Y] = [i \in Slots |->
      IF i <= N THEN FMul(Coef(OperatorOf(p), p, i), m[e.X][i]) ELSE m[e.Y][i]]]

\* linAlg.axpy(N, a, X, b, Y): Y = a*X + b*Y on the first N entries
ApplyAxpy(m, e) ==
  [m EXCEPT ![e.Y] = [i \in Slots |->
      IF i <= cgN THEN FAdd(FMul(e.a, m[e.X][i]), FMul(e.b, m[e.Y][i]))
      ELSE m[e.Y][i]]]

\* linAlg.setKernel(1, a, o_tmprdotr)
ApplySet(m, e) == [m EXCEPT !.o_tmprdotr = e.a]

\* updateCGKernel_r: r <= r - alpha*Ap on the first N entries, and the sum of
\* the squares of the updated entries is added to the accumulator
ApplyUpdateCG_r(m, e) ==
  LET rnew == [i \in Slots |->
                 IF i <= cgN THEN FSub(m.o_r[i], FMul(e.a, m.o_Ap[i]))
                 ELSE m.o_r[i]]
  IN  [m EXCEPT !.o_r = rnew,
                !.o_tmprdotr = FAdd(m.o_tmprdotr, Dot(cgN, rnew, rnew))]

\* the device runs the oldest operation of rank p's stream
DeviceStep(p) ==
  /\ queue[p] # <<>>
  /\ LET e == Head(queue[p])
         m == dev[p]
     IN  /\ dev' = [dev EXCEPT ![p] =
                CASE e.op = "Operator" -> ApplyOperator(p, m, e)
                  [] e.op = "axpy" -> ApplyAxpy(m, e)
                  [] e.op = "set" -> ApplySet(m, e)
                  [] e.op = "updateCG_r" -> ApplyUpdateCG_r(m, e)
                  [] OTHER -> m]
         /\ tmprdotr' = IF e.op = "copyTo"
                        THEN [tmprdotr EXCEPT ![p] = m.o_tmprdotr]
                        ELSE tmprdotr
  /\ queue' = [queue EXCEPT ![p] = Tail(queue[p])]
  /\ UNCHANGED <<opKind, tol, MAXIT, verbose, x0, r0, pc, rdotr, rdotr1,
                 rdotr2, alpha, beta, pAp, TOL, iter, ret, contrib, mailbox,
                 ncalls, napply, degenerate, out, lovars, nbvars, dcvars,
                 issued, rdotrHist, collLog, nsolve, opOther, p0, ret1, x1, r1>>


(***************************************************************************)
(* Collectives over comm                                                   *)
(***************************************************************************)
\* variant: the reduction hands each rank its own contribution back
AllreduceSum_local(c, q) == c[q]

\* MPI_SUM over the contributions c of all ranks, as delivered to rank q
AllreduceSum(c, q) == SumUpTo(c, NP)

\* rank p enters a collective with value v; the last rank to enter completes
\* it and the sum is delivered to every rank
CollEnter(p, v) ==
  LET c == [contrib EXCEPT ![p] = v]
  IN  IF \A q \in Procs : c[q] # None
      THEN /\ mailbox' = [q \in Procs |-> AllreduceSum(c, q)]
           /\ contrib' = [q \in Procs |-> None]
      ELSE /\ contrib' = c
           /\ UNCHANGED mailbox

(***************************************************************************)
(* cg::Solve                                                               *)
(***************************************************************************)
Reporting(p) == verbose # 0 /\ p - 1 = 0

\* dfloat TOL = mymax(tol*tol*rdotr,tol*tol);
Threshold(t, rd) == mymax(FMul(FMul(t, t), rd), FMul(t, t))

\* variant: the loop condition admits one trial too many
LoopCond_le(it, maxit) == it <= maxit

\* for(iter=0;iter<MAXIT;++iter)
LoopCond(it, maxit) == it < maxit

\* variant: the exit test is strict
ExitTest_lt(rd, T) == FLt(rd, T)

\* variant: the exit test is written as "not greater", which NaN passes
ExitTest_notGreater(rd, T) == ~FLt(T, rd)

\* if(rdotr<=TOL) break;
ExitTest(rd, T) == FLeq(rd, T)

\* variant: the ratio is taken the other way round
Beta_inverse(it, rd1, rd2) == IF it = 0 THEN Zero ELSE FDiv(rd2, rd1)

\* beta = (iter==0) ? 0.0 : rdotr1/rdotr2;
Beta(it, rd1, rd2) == IF it = 0 THEN Zero ELSE FDiv(rd1, rd2)

\* lines 71-84: the locals are zeroed, A*x and r = r - A*x are issued
Solve_Begin(p) ==
  /\ pc[p] = "idle"
  /\ rdotr1' = [rdotr1 EXCEPT ![p] = Zero]
  /\ rdotr2' = [rdotr2 EXCEPT ![p] = Zero]
  /\ alpha' = [alpha EXCEPT ![p] = Zero]
  /\ beta' = [beta EXCEPT ![p] = Zero]
  /\ pAp' = [pAp EXCEPT ![p] = Zero]
  /\ rdotr' = [rdotr EXCEPT ![p] = Zero]
  /\ queue' = [queue EXCEPT ![p] =
        queue[p] \o <<OpOperator("o_x", "o_Ap"),
                      OpAxpy(<<-1, 1>>, "o_Ap", One, "o_r")>>]
  /\ napply' = [napply EXCEPT ![p] = 1]
  /\ ncalls' = [ncalls EXCEPT ![p] = 0]
  /\ rdotrHist' = [rdotrHist EXCEPT ![p] = <<>>]
  /\ collLog' = [collLog EXCEPT ![p] = <<>>]
  /\ pc' = [pc EXCEPT ![p] = "norm2"]
  /\ UNCHANGED <<opKind, tol, MAXIT, verbose, x0, r0, dev, tmprdotr, TOL,
                 iter, ret, contrib, mailbox, degenerate, out, lovars, nbvars, dcvars,
                 issued, nsolve, opOther, p0, ret1, x1, r1>>

\* line 86: linAlg.norm2 reads o_r once the stream has drained and enters
\* the reduction over comm
Solve_norm2(p) ==
  /\ pc[p] = "norm2"
  /\ queue[p] = <<>>
  /\ CollEnter(p, Dot(cgN, dev[p].o_r, dev[p].o_r))
  /\ collLog' = [collLog EXCEPT ![p] = Append(@, "norm2")]
  /\ pc' = [pc EXCEPT ![p] = "norm2_wait"]
  /\ UNCHANGED <<opKind, tol, MAXIT, verbose, x0, r0, dev, tmprdotr, queue,
                 rdotr, rdotr1, rdotr2, alpha, beta, pAp, TOL, iter, ret,
                 ncalls, napply, degenerate, out, lovars, nbvars, dcvars,
                 issued, rdotrHist, nsolve, opOther, p0, ret1, x1, r1>>

\* lines 86-94: rdotr = norm^2, TOL, the initial print, iter = 0
Solve_norm2Done(p) ==
  /\ pc[p] = "norm2_wait"
  /\ mailbox[p] # None
  /\ rdotr' = [rdotr EXCEPT ![p] = mailbox[p]]
  /\ TOL' = [TOL EXCEPT ![p] = Threshold(tol, mailbox[p])]
  /\ mailbox' = [mailbox EXCEPT ![p] = None]
  /\ out' = [out EXCEPT ![p] =
        IF Reporting(p) THEN Append(out[p], "initial") ELSE out[p]]
  /\ iter' = [iter EXCEPT ![p] = 0]
  /\ rdotrHist' = [rdotrHist EXCEPT ![p] = <<mailbox[p]>>]
  /\ pc' = [pc EXCEPT ![p] = "loop"]
  /\ UNCHANGED <<opKind, tol, MAXIT, verbose, x0, r0, dev, tmprdotr, queue,
                 rdotr1, rdotr2, alpha, beta, pAp, ret, contrib, ncalls,
                 napply, degenerate, lovars, nbvars, dcvars,
                 issued, collLog, nsolve, opOther, p0, ret1, x1, r1>>

\* lines 95, 98, 130: the loop ends and Solve returns iter
Solve_Return(p) ==
  /\ pc[p] = "loop"
  /\ ~LoopCond(iter[p], MAXIT) \/ ExitTest(rdotr[p], TOL[p])
  /\ ret' = [ret EXCEPT ![p] = iter[p]]
  /\ pc' = [pc EXCEPT ![p] = "done"]
  /\ UNCHANGED <<opKind, tol, MAXIT, verbose, x0, r0, dev, tmprdotr, queue,
                 rdotr, rdotr1, rdotr2, alpha, beta, pAp, TOL, iter, contrib,
                 mailbox, ncalls, napply, degenerate, out, lovars, nbvars, dcvars,
                 issued, rdotrHist, collLog, nsolve, opOther, p0, ret1, x1, r1>>

\* lines 95-110: one more trial; p = r + beta*p and A*p are issued
Solve_Iterate(p) ==
  /\ pc[p] = "loop"
  /\ LoopCond(iter[p], MAXIT)
  /\ ~ExitTest(rdotr[p], TOL[p])
  /\ rdotr2' = [rdotr2 EXCEPT ![p] = rdotr1[p]]
  /\ rdotr1' = [rdotr1 EXCEPT ![p] = rdotr[p]]
  /\ beta' = [beta EXCEPT ![p] = Beta(iter[p], rdotr[p], rdotr1[p])]
  /\ queue' = [queue EXCEPT ![p] =
        queue[p] \o <<OpAxpy(One, "o_r", Beta(iter[p], rdotr[p], rdotr1[p]), "o_p"),
                      OpOperator("o_p", "o_Ap")>>]
  /\ napply' = [napply EXCEPT ![p] = napply[p] + 1]
  /\ pc' = [pc EXCEPT ![p] = "innerProd"]
  /\ UNCHANGED <<opKind, tol, MAXIT, verbose, x0, r0, dev, tmprdotr, rdotr,
                 alpha, pAp, TOL, iter, ret, contrib, mailbox, ncalls,
                 degenerate, out, lovars, nbvars, dcvars,
                 issued, rdotrHist, collLog, nsolve, opOther, p0, ret1, x1, r1>>

\* line 113: linAlg.innerProd reads o_p and o_Ap once the stream has drained
\* and enters the reduction over comm
Solve_innerProd(p) ==
  /\ pc[p] = "innerProd"
  /\ queue[p] = <<>>
  /\ CollEnter(p, Dot(cgN, dev[p].o_p, dev[p].o_Ap))
  /\ collLog' = [collLog EXCEPT ![p] = Append(@, "innerProd")]
  /\ pc' = [pc EXCEPT ![p] = "innerProd_wait"]
  /\ UNCHANGED <<opKind, tol, MAXIT, verbose, x0, r0, dev, tmprdotr, queue,
                 rdotr, rdotr1, rdotr2, alpha, beta, pAp, TOL, iter, ret,
                 ncalls, napply, degenerate, out, lovars, nbvars, dcvars,
                 issued, rdotrHist, nsolve, opOther, p0, ret1, x1, r1>>

\* lines 113-120: pAp, alpha = rdotr1/pAp, and the call of UpdateCG
Solve_innerProdDone(p) ==
  /\ pc[p] = "innerProd_wait"
  /\ mailbox[p] # None
  /\ pAp' = [pAp EXCEPT ![p] = mailbox[p]]
  /\ alpha' = [alpha EXCEPT ![p] = FDiv(rdotr1[p], mailbox[p])]
  /\ degenerate' = [degenerate EXCEPT ![p] = @ \/ ~FLt(Zero, mailbox[p])]
  /\ mailbox' = [mailbox EXCEPT ![p] = None]
  /\ pc' = [pc EXCEPT ![p] = "UpdateCG"]
  /\ UNCHANGED <<opKind, tol, MAXIT, verbose, x0, r0, dev, tmprdotr, queue,
                 rdotr, rdotr1, rdotr2, beta, TOL, iter, ret, contrib, ncalls,
                 napply, out, lovars, nbvars, dcvars,
                 issued, rdotrHist, collLog, nsolve, opOther, p0, ret1, x1, r1>>

\* Solve has returned on rank p and the caller has read the result back; the
\* caller prepares o_x and o_r again and calls Solve on the same cg object,
\* whose o_p, o_Ap and accumulator buffers are as the last call left them
Solve_Again(p) ==
  /\ pc[p] = "done"
  /\ queue[p] = <<>>
  /\ nsolve[p] < MaxSolves
  /\ nsolve' = [nsolve EXCEPT ![p] = nsolve[p] + 1]
  /\ ret1' = [ret1 EXCEPT ![p] = IF nsolve[p] = 1 THEN ret[p] ELSE ret1[p]]
  /\ x1' = [x1 EXCEPT ![p] = IF nsolve[p] = 1 THEN dev[p].o_x ELSE x1[p]]
  /\ r1' = [r1 EXCEPT ![p] = IF nsolve[p] = 1 THEN dev[p].o_r ELSE r1[p]]
  /\ p0' = [p0 EXCEPT ![p] = dev[p].o_p]
  /\ dev' = [dev EXCEPT ![p].o_x = x0[p], ![p].o_r = r0[p]]
  /\ pc' = [pc EXCEPT ![p] = "idle"]
  /\ UNCHANGED <<opKind, tol, MAXIT, verbose, x0, r0, tmprdotr, queue, rdotr,
                 rdotr1, rdotr2, alpha, beta, pAp, TOL, iter, ret, contrib,
                 mailbox, ncalls, napply, degenerate, out, lovars, nbvars,
                 dcvars, issued, rdotrHist, collLog, opOther>>

(***************************************************************************)
(* cg::UpdateCG                                                            *)
(***************************************************************************)
\* variant: the solution update is issued with o_x and o_p exchanged
UpdateCG_ops_swapXP(a) ==
  << OpSet(Zero, "o_tmprdotr"),
     OpUpdateCG_r(a),
     OpCopyTo,
     OpTag,
     OpAxpy(a, "o_x", One, "o_p") >>

\* variant: the stream is tagged before the transfer is started
UpdateCG_ops_tagFirst(a) ==
  << OpSet(Zero, "o_tmprdotr"),
     OpUpdateCG_r(a),
     OpTag,
     OpCopyTo,
     OpAxpy(a, "o_p", One, "o_x") >>

\* variant: the reset, the fused kernel and the transfer are issued twice
UpdateCG_ops_twice(a) ==
  << OpSet(Zero, "o_tmprdotr"),
     OpUpdateCG_r(a),
     OpCopyTo,
     OpSet(Zero, "o_tmprdotr"),
     OpUpdateCG_r(a),
     OpCopyTo,
     OpTag,
     OpAxpy(a, "o_p", One, "o_x") >>

\* variant: the solution update is issued before the reduction is started
UpdateCG_ops_axpyFirst(a) ==
  << OpAxpy(a, "o_p", One, "o_x"),
     OpSet(Zero, "o_tmprdotr"),
     OpUpdateCG_r(a),
     OpCopyTo,
     OpTag >>

\* lines 143-150: what UpdateCG issues to the stream, in issue order
UpdateCG_ops(a) ==
  << OpSet(Zero, "o_tmprdotr"),
     OpUpdateCG_r(a),
     OpCopyTo,
     OpTag,
     OpAxpy(a, "o_p", One, "o_x") >>

\* variant: waitFor returns at once
TagReached_nowait(q) == TRUE

\* platform.device.waitFor(tag) returns once the tag has been reached
TagReached(q) == \A k \in 1..Len(q) : q[k].op # "tag"

\* the steps of a sequence of stream operations, by name and target
Issued(ops) == [k \in 1..Len(ops) |-> <<ops[k].op, ops[k].Y>>]

\* lines 139-150: the non-blocking part of UpdateCG
UpdateCG_Issue(p) ==
  /\ pc[p] = "UpdateCG"
  /\ ncalls' = [ncalls EXCEPT ![p] = ncalls[p] + 1]
  /\ queue' = [queue EXCEPT ![p] = queue[p] \o UpdateCG_ops(alpha[p])]
  /\ issued' = [issued EXCEPT ![p] = Issued(UpdateCG_ops(alpha[p]))]
  /\ pc' = [pc EXCEPT ![p] = "waitFor"]
  /\ UNCHANGED <<opKind, tol, MAXIT, verbose, x0, r0, dev, tmprdotr, rdotr,
                 rdotr1, rdotr2, alpha, beta, pAp, TOL, iter, ret, contrib,
                 mailbox, napply, degenerate, out, lovars, nbvars, dcvars,
                 rdotrHist, collLog, nsolve, opOther, p0, ret1, x1, r1>>

\* line 152: platform.device.waitFor(tag) returns
UpdateCG_waitFor(p) ==
  /\ pc[p] = "waitFor"
  /\ TagReached(queue[p])
  /\ issued' = [issued EXCEPT ![p] = Append(@, <<"waitFor", "">>)]
  /\ pc' = [pc EXCEPT ![p] = "Allreduce"]
  /\ UNCHANGED <<opKind, tol, MAXIT, verbose, x0, r0, dev, tmprdotr, queue,
                 rdotr, rdotr1, rdotr2, alpha, beta, pAp, TOL, iter, ret,
                 contrib, mailbox, ncalls, napply, degenerate, out, lovars, nbvars, dcvars,
                 rdotrHist, collLog, nsolve, opOther, p0, ret1, x1, r1>>

\* line 156: MPI_Allreduce is entered with the content of tmprdotr
UpdateCG_Allreduce(p) ==
  /\ pc[p] = "Allreduce"
  /\ CollEnter(p, tmprdotr[p])
  /\ issued' = [issued EXCEPT ![p] = Append(@, <<"Allreduce", "">>)]
  /\ collLog' = [collLog EXCEPT ![p] = Append(@, "Allreduce")]
  /\ pc' = [pc EXCEPT ![p] = "Allreduce_wait"]
  /\ UNCHANGED <<opKind, tol, MAXIT, verbose, x0, r0, dev, tmprdotr, queue,
                 rdotr, rdotr1, rdotr2, alpha, beta, pAp, TOL, iter, ret,
                 ncalls, napply, degenerate, out, lovars, nbvars, dcvars,
                 rdotrHist, nsolve, opOther, p0, ret1, x1, r1>>

\* lines 156-158 and 120-128: MPI_Allreduce returns, UpdateCG returns the
\* sum, Solve stores it in rdotr, prints, and ++iter
UpdateCG_Return(p) ==
  /\ pc[p] = "Allreduce_wait"
  /\ mailbox[p] # None
  /\ rdotr' = [rdotr EXCEPT ![p] = mailbox[p]]
  /\ mailbox' = [mailbox EXCEPT ![p] = None]
  /\ out' = [out EXCEPT ![p] =
        IF Reporting(p)
        THEN (IF FLt(mailbox[p], Zero) THEN Append(out[p], "WARNING") ELSE out[p])
               \o <<"it">>
        ELSE out[p]]
  /\ iter' = [iter EXCEPT ![p] = iter[p] + 1]
  /\ rdotrHist' = [rdotrHist EXCEPT ![p] = Append(@, mailbox[p])]
  /\ pc' = [pc EXCEPT ![p] = "loop"]
  /\ UNCHANGED <<opKind, tol, MAXIT, verbose, x0, r0, dev, tmprdotr, queue,
                 rdotr1, rdotr2, alpha, beta, pAp, TOL, ret, contrib, ncalls,
                 napply, degenerate, lovars, nbvars, dcvars,
                 issued, collLog, nsolve, opOther, p0, ret1, x1, r1>>

(***************************************************************************)
(* hipBone_t::LocalOperator                                                *)
(***************************************************************************)
sizeof_dlong == 4

ListPos == 0..(MaxElems - 1)

\* a localOperatorKernel launch: Nelements, the element list and the byte
\* offset added to it; batch names the statement that issued it
Launch(batch, count, list, bytes) ==
  [batch |-> batch, count |-> count, list |-> list, bytes |-> bytes]

\* variant: the second half is given the count of the first
Dispatches_halfTwice(n, g) ==
  (IF n \div 2 # 0
   THEN <<Launch("first", n \div 2, "localGatherElementList", 0)>>
   ELSE <<>>)
  \o
  (IF g # 0
   THEN <<Launch("global", g, "globalGatherElementList", 0)>>
   ELSE <<>>)
  \o
  (IF n \div 2 # 0
   THEN <<Launch("second", n \div 2, "localGatherElementList",
                 (n \div 2) * sizeof_dlong)>>
   ELSE <<>>)

\* variant: both local-only halves are issued before the halo-dependent batch
Dispatches_globalLast(n, g) ==
  (IF n \div 2 # 0
   THEN <<Launch("first", n \div 2, "localGatherElementList", 0)>>
   ELSE <<>>)
  \o
  (IF (n + 1) \div 2 # 0
   THEN <<Launch("second", (n + 1) \div 2, "localGatherElementList",
                 (n \div 2) * sizeof_dlong)>>
   ELSE <<>>)
  \o
  (IF g # 0
   THEN <<Launch("global", g, "globalGatherElementList", 0)>>
   ELSE <<>>)

\* variant: the three launches are issued whatever their counts
Dispatches_noSkip(n, g) ==
  << Launch("first", n \div 2, "localGatherElementList", 0),
     Launch("global", g, "globalGatherElementList", 0),
     Launch("second", (n + 1) \div 2, "localGatherElementList",
            (n \div 2) * sizeof_dlong) >>

\* lines 32-52: the launches LocalOperator issues, in order, for n local-only
\* and g halo-dependent elements; C++ integer division, a launch is issued
\* only if its count is non-zero
Dispatches(n, g) ==
  (IF n \div 2 # 0
   THEN <<Launch("first", n \div 2, "localGatherElementList", 0)>>
   ELSE <<>>)
  \o
  (IF g # 0
   THEN <<Launch("global", g, "globalGatherElementList", 0)>>
   ELSE <<>>)
  \o
  (IF (n + 1) \div 2 # 0
   THEN <<Launch("second", (n + 1) \div 2, "localGatherElementList",
                 (n \div 2) * sizeof_dlong)>>
   ELSE <<>>)

\* the host runs LocalOperator
LocalOperator ==
  /\ pcLO = "call"
  /\ launches' = launches \o Dispatches(NlocalGatherElements, NglobalGatherElements)
  /\ pcLO' = "ret"
  /\ UNCHANGED <<NlocalGatherElements, NglobalGatherElements, executed,
                 hitsLocal, hitsGlobal, cgvars, nbvars, dcvars>>

\* list positions a launch processes: count entries from the offset on
Covered(l) ==
  { (l.bytes \div sizeof_dlong) + e : e \in 0..(l.count - 1) }

\* the device runs the oldest launch not yet run
localOperatorKernel ==
  /\ executed < Len(launches)
  /\ LET l == launches[executed + 1]
     IN  IF l.list = "localGatherElementList"
         THEN /\ hitsLocal' = [k \in ListPos |->
                     IF k \in Covered(l) THEN hitsLocal[k] + 1 ELSE hitsLocal[k]]
              /\ UNCHANGED hitsGlobal
         ELSE /\ hitsGlobal' = [k \in ListPos |->
                     IF k \in Covered(l) THEN hitsGlobal[k] + 1 ELSE hitsGlobal[k]]
              /\ UNCHANGED hitsLocal
  /\ executed' = executed + 1
  /\ UNCHANGED <<NlocalGatherElements, NglobalGatherElements, pcLO, launches,
                 cgvars, nbvars, dcvars>>

(***************************************************************************)
(* The block count of cg::UpdateCG                                         *)
(***************************************************************************)
\* largest value of int
INT_MAX == 2147483647

\* a/b as int division computes it for b > 0: the quotient is truncated
\* toward zero
IntDiv(a, b) ==
  IF a >= 0 \/ a % b = 0 THEN a \div b ELSE (a \div b) + 1

\* the values (n+CG_BLOCKSIZE-1)/CG_BLOCKSIZE can take in int arithmetic.  The
\* sum overflows int for n > INT_MAX-(CG_BLOCKSIZE-1), which is undefined: a
\* build either lets the sum wrap around to n+CG_BLOCKSIZE-1-2^32 or keeps
\* the value exact in a wider register
BlockQuotients(n) ==
  IF n <= INT_MAX - (CG_BLOCKSIZE - 1)
  THEN {IntDiv(n + CG_BLOCKSIZE - 1, CG_BLOCKSIZE)}
  ELSE {IntDiv((n - INT_MAX) + ((CG_BLOCKSIZE - 1) - INT_MAX) - 2, CG_BLOCKSIZE),
        ((n - 1) \div CG_BLOCKSIZE) + 1}

\* Nblocks = (Nblocks>CG_BLOCKSIZE) ? CG_BLOCKSIZE : Nblocks;
CapBlocks(q) == IF q > CG_BLOCKSIZE THEN CG_BLOCKSIZE ELSE q

\* lines 139-140 of UpdateCG
UpdateCG_Nblocks ==
  /\ pcNB = "call"
  /\ \E q \in BlockQuotients(nbN) : Nblocks' = CapBlocks(q)
  /\ pcNB' = "ret"
  /\ UNCHANGED <<nbN, cgvars, lovars, dcvars>>

\* problem sizes around the block boundaries, the cap and the end of int
NbBases ==
  {0, CG_BLOCKSIZE, 2 * CG_BLOCKSIZE, CG_BLOCKSIZE * (CG_BLOCKSIZE - 1),
   CG_BLOCKSIZE * CG_BLOCKSIZE, CG_BLOCKSIZE * (CG_BLOCKSIZE + 1),
   INT_MAX - (CG_BLOCKSIZE - 1), INT_MAX - NbSpan}

NbInputs ==
  {n \in {b + d : b \in NbBases, d \in (0 - NbSpan)..NbSpan} : n >= 0}

InitNBIdle ==
  /\ nbN = 0
  /\ Nblocks = 0
  /\ pcNB = "ret"

(***************************************************************************)
(* platform_t::DeviceConfig                                                *)
(***************************************************************************)
Hosts == {"a", "b"}
Ranks == 0..(MaxSize - 1)
ThreadModels == {"CUDA", "HIP", "OpenCL", "OpenMP", "Serial"}
DeviceNumbers == {0, 1}

\* for (int n=0; n<rank; n++) if (!strcmp(hostname, hostnames[n])) localRank++;
LocalRank(rk, names) ==
  Cardinality({n \in 0..(rk - 1) : names[n] = names[rk]})

\* for (int n=0; n<size; n++) if (!strcmp(hostname, hostnames[n])) localSize++;
LocalSize(rk, sz, names) ==
  Cardinality({n \in 0..(sz - 1) : names[n] = names[rk]})

\* the thread models for which a device_id is added to the setup string
UsesDeviceId(tm) == tm = "CUDA" \/ tm = "HIP" \/ tm = "OpenCL"

\* variant: an over-subscribed rank keeps its local rank as device id
DeviceId_noWrap(sz, lr, cnt, number) ==
  IF sz = 1 THEN number ELSE lr

\* lines 82-95: DEVICE NUMBER for a single rank, else the local rank, reduced
\* modulo the device count when the devices are over-subscribed
DeviceId(sz, lr, cnt, number) ==
  IF sz = 1 THEN number
  ELSE IF cnt > 0 /\ lr >= cnt THEN lr % cnt ELSE lr

\* rank rk runs DeviceConfig; hostname is the table MPI_Allgather returns
DeviceConfig(rk) ==
  /\ rk < size
  /\ pcDC[rk] = "call"
  /\ localRank' = [localRank EXCEPT ![rk] = LocalRank(rk, hostname)]
  /\ localSize' = [localSize EXCEPT ![rk] = LocalSize(rk, size, hostname)]
  /\ device_id' = [device_id EXCEPT ![rk] =
        IF UsesDeviceId(threadModel)
        THEN DeviceId(size, LocalRank(rk, hostname), deviceCount[hostname[rk]],
                      DEVICE_NUMBER)
        ELSE 0]
  /\ pcDC' = [pcDC EXCEPT ![rk] = "ret"]
  /\ UNCHANGED <<size, hostname, deviceCount, threadModel, DEVICE_NUMBER,
                 cgvars, lovars, nbvars>>

InitDCIdle ==
  /\ size = 1
  /\ hostname = [rk \in Ranks |-> "a"]
  /\ deviceCount = [h \in Hosts |-> 0]
  /\ threadModel = "Serial"
  /\ DEVICE_NUMBER = 0
  /\ pcDC = [rk \in Ranks |-> "ret"]
  /\ localRank = [rk \in Ranks |-> 0]
  /\ localSize = [rk \in Ranks |-> 0]
  /\ device_id = [rk \in Ranks |-> 0]

(***************************************************************************)
(* The solver after construction, with the caller's vectors prepared       *)
(***************************************************************************)
ZeroVec == [i \in Slots |-> Zero]

InitLOIdle ==
  /\ NlocalGatherElements = 0
  /\ NglobalGatherElements = 0
  /\ pcLO = "ret"
  /\ launches = <<>>
  /\ executed = 0
  /\ hitsLocal = [k \in ListPos |-> 0]
  /\ hitsGlobal = [k \in ListPos |-> 0]

InitCG ==
  /\ opKind \in OpKinds
  /\ tol \in Tols
  /\ MAXIT \in 0..MaxIt
  /\ verbose \in {0, 1}
  /\ \E xk \in X0Kinds : x0 = [p \in Procs |-> X0Vec(xk, p)]
  /\ \E rk \in RhsKinds : r0 = [p \in Procs |-> RhsVec(rk, p)]
  /\ dev = [p \in Procs |->
              [o_x |-> x0[p], o_r |-> r0[p], o_p |-> ZeroVec, o_Ap |-> ZeroVec,
               o_tmprdotr |-> Uninit]]
  /\ tmprdotr = [p \in Procs |-> Uninit]
  /\ queue = [p \in Procs |-> <<>>]
  /\ pc = [p \in Procs |-> "idle"]
  /\ rdotr = [p \in Procs |-> Zero]
  /\ rdotr1 = [p \in Procs |-> Zero]
  /\ rdotr2 = [p \in Procs |-> Zero]
  /\ alpha = [p \in Procs |-> Zero]
  /\ beta = [p \in Procs |-> Zero]
  /\ pAp = [p \in Procs |-> Zero]
  /\ TOL = [p \in Procs |-> Zero]
  /\ iter = [p \in Procs |-> 0]
  /\ ret = [p \in Procs |-> -1]
  /\ contrib = [p \in Procs |-> None]
  /\ mailbox = [p \in Procs |-> None]
  /\ ncalls = [p \in Procs |-> 0]
  /\ napply = [p \in Procs |-> 0]
  /\ degenerate = [p \in Procs |-> FALSE]
  /\ out = [p \in Procs |-> <<>>]
  /\ issued = [p \in Procs |-> <<>>]
  /\ rdotrHist = [p \in Procs |-> <<>>]
  /\ collLog = [p \in Procs |-> <<>>]
  /\ nsolve = [p \in Procs |-> 1]
  /\ p0 = [p \in Procs |-> ZeroVec]
  /\ ret1 = [p \in Procs |-> -1]
  /\ x1 = [p \in Procs |-> ZeroVec]
  /\ r1 = [p \in Procs |-> ZeroVec]

Init == InitCG /\ opOther = opKind /\ InitLOIdle /\ InitNBIdle /\ InitDCIdle

Next ==
  \E p \in Procs :
    \/ Solve_Begin(p)
    \/ Solve_norm2(p)
    \/ Solve_norm2Done(p)
    \/ Solve_Return(p)
    \/ Solve_Iterate(p)
    \/ Solve_innerProd(p)
    \/ Solve_innerProdDone(p)
    \/ UpdateCG_Issue(p)
    \/ UpdateCG_waitFor(p)
    \/ UpdateCG_Allreduce(p)
    \/ UpdateCG_Return(p)
    \/ DeviceStep(p)

Spec == Init /\ [][Next]_vars

(***************************************************************************)
(* LocalOperator on a mesh with up to MaxElems elements in each list       *)
(***************************************************************************)
InitLO ==
  /\ InitCG
  /\ opKind = "identity" /\ tol = Zero /\ MAXIT = 0 /\ verbose = 0
  /\ opOther = opKind /\ InitNBIdle /\ InitDCIdle
  /\ x0 = [p \in Procs |-> X0Vec("zero", p)]
  /\ r0 = [p \in Procs |-> RhsVec("zero", p)]
  /\ NlocalGatherElements \in 0..MaxElems
  /\ NglobalGatherElements \in 0..MaxElems
  /\ pcLO = "call"
  /\ launches = <<>>
  /\ executed = 0
  /\ hitsLocal = [k \in ListPos |-> 0]
  /\ hitsGlobal = [k \in ListPos |-> 0]

NextLO == LocalOperator \/ localOperatorKernel

SpecLO == InitLO /\ [][NextLO]_vars

(***************************************************************************)
(* The other entry points are checked with the solver left idle            *)
(***************************************************************************)
InitCGIdle ==
  /\ InitCG
  /\ opKind = "identity" /\ tol = Zero /\ MAXIT = 0 /\ verbose = 0
  /\ opOther = opKind
  /\ x0 = [p \in Procs |-> X0Vec("zero", p)]
  /\ r0 = [p \in Procs |-> RhsVec("zero", p)]

\* Solve called MaxSolves times on one solver: the odd calls with the
\* operator opKind, the even calls with the operator opOther, each on the
\* same x, r, tolerance and iteration limit
InitRepeat ==
  /\ InitCG
  /\ verbose = 0
  /\ x0 = [p \in Procs |-> X0Vec("zero", p)]
  /\ opOther \in OpKinds
  /\ InitLOIdle /\ InitNBIdle /\ InitDCIdle

NextRepeat == Next \/ \E p \in Procs : Solve_Again(p)

SpecRepeat == InitRepeat /\ [][NextRepeat]_vars

InitNB ==
  /\ InitCGIdle /\ InitLOIdle /\ InitDCIdle
  /\ nbN \in NbInputs
  /\ Nblocks = 0
  /\ pcNB = "call"

NextNB == UpdateCG_Nblocks

SpecNB == InitNB /\ [][NextNB]_vars

InitDC ==
  /\ InitCGIdle /\ InitLOIdle /\ InitNBIdle
  /\ size \in 1..MaxSize
  /\ hostname \in [Ranks -> Hosts]
  /\ \A rk \in Ranks : rk >= size => hostname[rk] = "a"
  /\ deviceCount \in [Hosts -> 0..MaxDev]
  /\ threadModel \in ThreadModels
  /\ DEVICE_NUMBER \in DeviceNumbers
  /\ pcDC = [rk \in Ranks |-> IF rk < size THEN "call" ELSE "ret"]
  /\ localRank = [rk \in Ranks |-> 0]
  /\ localSize = [rk \in Ranks |-> 0]
  /\ device_id = [rk \in Ranks |-> 0]

NextDC == \E rk \in Ranks : DeviceConfig(rk)

SpecDC == InitDC /\ [][NextDC]_vars


(***************************************************************************)
(* Properties of cg::Solve and cg::UpdateCG                                *)
(***************************************************************************)
\* r0 - A*x0 on the owned entries of rank p
InitialResidual(p) ==
  [i \in Owned |-> FSub(r0[p][i], FMul(Coef(opKind, p, i), x0[p][i]))]

\* the squared norm over comm of the initial residual
InitialRdotr ==
  SumUpTo([p \in Procs |-> Dot(N, InitialResidual(p), InitialResidual(p))], NP)

\* the initial residual already meets the stopping threshold
ConvergedAtStart ==
  FLeq(InitialRdotr, mymax(FMul(FMul(tol, tol), InitialRdotr), FMul(tol, tol)))

\* C1: when Solve has returned, the returned count k satisfies
\* 0 <= k <= MAXIT and equals the number of UpdateCG calls made; a trial
\* ended by the exit test is not counted.
C1_ReturnCountsIterations ==
  \A p \in Procs :
    pc[p] = "done" =>
      /\ 0 <= ret[p]
      /\ ret[p] <= MAXIT
      /\ ret[p] = ncalls[p]

\* a return through the exit test after one completed iteration, with
\* trials to spare
C1_Witness ==
  \E p \in Procs :
    /\ pc[p] = "done"
    /\ ret[p] = 1
    /\ MAXIT = 2
    /\ FLeq(rdotr[p], TOL[p])

\* C2: if the initial residual already satisfies rdotr <= TOL, Solve
\* returns 0 without calling UpdateCG, has applied the operator exactly once,
\* and leaves o_x and o_p as they were.
C2_ZeroIterations ==
  \A p \in Procs :
    (pc[p] = "done" /\ ConvergedAtStart) =>
      /\ ret[p] = 0
      /\ ncalls[p] = 0
      /\ napply[p] = 1
      /\ queue[p] = <<>>
      /\ dev[p].o_x = x0[p]
      /\ dev[p].o_p = ZeroVec

\* a return with a non-zero initial residual under a loose tolerance and a
\* positive iteration budget
C2_Witness ==
  \E p \in Procs :
    /\ pc[p] = "done"
    /\ ConvergedAtStart
    /\ InitialRdotr # Zero
    /\ MAXIT > 0
    /\ ret[p] = 0

\* C3 as stated: with the identity operator and x = 0 on entry, Solve returns
\* 1 and o_x equals r0 on the owned entries.
C3_Original ==
  \A p \in Procs :
    (pc[p] = "done" /\ opKind = "identity"
       /\ \A q \in Procs : \A i \in Owned : x0[q][i] = Zero) =>
      /\ ret[p] = 1
      /\ \A i \in Owned : dev[p].o_x[i] = r0[p][i]

\* C3: with the identity operator, x = 0 on entry, MAXIT >= 1 and an initial
\* residual that does not already meet the threshold, Solve returns 1, and
\* once the stream has run the last solution update o_x equals r0 on the
\* owned entries.
C3_IdentityOneIteration ==
  \A p \in Procs :
    (pc[p] = "done" /\ opKind = "identity"
       /\ (\A q \in Procs : \A i \in Owned : x0[q][i] = Zero)
       /\ MAXIT >= 1
       /\ ~ConvergedAtStart) =>
      /\ ret[p] = 1
      /\ queue[p] = <<>> => \A i \in Owned : dev[p].o_x[i] = r0[p][i]

\* Solve has returned 1 for the identity operator and the solution update
\* has been run
C3_Witness ==
  \E p \in Procs :
    /\ pc[p] = "done"
    /\ opKind = "identity"
    /\ \A q \in Procs : \A i \in Owned : x0[q][i] = Zero
    /\ ~ConvergedAtStart
    /\ ret[p] = 1
    /\ queue[p] = <<>>
    /\ \E i \in Owned : dev[p].o_x[i] # Zero

\* C4 as stated: when waitFor(tag) has returned, the transfer and the
\* solution update x <- alpha*p + x have both completed.
C4_Original ==
  \A p \in Procs :
    pc[p] = "Allreduce" =>
      \A k \in 1..Len(queue[p]) :
        /\ queue[p][k].op # "copyTo"
        /\ ~(queue[p][k].op = "axpy" /\ queue[p][k].Y = "o_x")

\* C4: when waitFor(tag) has returned, the accumulator reset, the fused
\* kernel and the transfer have completed; only the solution update, issued
\* after the tag, may still be pending on the stream.
C4_WaitJoinsTransfer ==
  \A p \in Procs :
    pc[p] = "Allreduce" =>
      /\ Len(queue[p]) <= 1
      /\ \A k \in 1..Len(queue[p]) :
           queue[p][k].op = "axpy" /\ queue[p][k].Y = "o_x"

\* waitFor has returned while the solution update is still on the stream
C4_Witness ==
  \E p \in Procs :
    /\ pc[p] = "Allreduce"
    /\ Len(queue[p]) = 1
    /\ queue[p][1].op = "axpy"
    /\ tmprdotr[p] = dev[p].o_tmprdotr

\* C5: the value UpdateCG hands to MPI_Allreduce is the accumulator value of
\* this call's fused kernel, the sum of squares of the updated o_r: when the
\* host reads tmprdotr no transfer is in flight, and what it hands over is
\* that sum.
C5_ReducedValueIsKernelSum ==
  \A p \in Procs :
    /\ pc[p] = "Allreduce" =>
         /\ \A k \in 1..Len(queue[p]) : queue[p][k].op # "copyTo"
         /\ tmprdotr[p] = Dot(N, dev[p].o_r, dev[p].o_r)
         /\ tmprdotr[p] = dev[p].o_tmprdotr
    /\ (pc[p] = "Allreduce_wait" /\ contrib[p] # None) =>
         contrib[p] = Dot(N, dev[p].o_r, dev[p].o_r)

\* a rank is about to reduce a finite non-zero kernel sum
C5_Witness ==
  \E p \in Procs :
    /\ pc[p] = "Allreduce"
    /\ ncalls[p] = 1
    /\ IsFinite(tmprdotr[p])
    /\ tmprdotr[p] # Zero

\* C6: the rdotr a rank holds at the top of a trial is the sum over all
\* ranks of the squared norms of their current residuals, never a
\* rank-local partial value.
C6_RdotrIsGlobalSum ==
  \A p \in Procs :
    pc[p] = "loop" =>
      rdotr[p] = SumUpTo([q \in Procs |-> Dot(N, dev[q].o_r, dev[q].o_r)], NP)

\* a rank is at the top of a later trial with an rdotr that differs from its
\* own partial sum
C6_Witness ==
  \E p \in Procs :
    /\ pc[p] = "loop"
    /\ iter[p] >= 1
    /\ IsFinite(rdotr[p])
    /\ rdotr[p] # Dot(N, dev[p].o_r, dev[p].o_r)

\* C10 as stated: after an iteration with pAp zero or negative the loop goes
\* on until maxIterations is reached.
C10_Original ==
  \A p \in Procs :
    (pc[p] = "done" /\ degenerate[p]) => ret[p] = MAXIT

\* C10: an iteration with pAp zero, negative or NaN does not by itself end
\* the loop: Solve still returns only through the exit test rdotr <= TOL or
\* with iter = MAXIT, a non-finite rdotr never passes the exit test, and
\* nothing is printed unless verbose is set on rank 0.
C10_DegeneracyKeepsLoopRule ==
  \A p \in Procs :
    (pc[p] = "done" /\ degenerate[p]) =>
      /\ ret[p] = MAXIT \/ FLeq(rdotr[p], TOL[p])
      /\ ~IsFinite(rdotr[p]) => ret[p] = MAXIT
      /\ ~Reporting(p) => out[p] = <<>>

\* Solve has returned after pAp = 0 made rdotr NaN and the loop ran on to
\* MAXIT
C10_Witness ==
  \E p \in Procs :
    /\ pc[p] = "done"
    /\ degenerate[p]
    /\ IsNaN(rdotr[p])
    /\ MAXIT = 2
    /\ ret[p] = 2

\* C11 as stated: whenever Solve returns MAXIT > 0, the final rdotr does not
\* satisfy rdotr <= TOL.
C11_Original ==
  \A p \in Procs :
    (pc[p] = "done" /\ MAXIT > 0 /\ ret[p] = MAXIT) => ~FLeq(rdotr[p], TOL[p])

\* C11: a returned count below MAXIT means the exit test rdotr <= TOL held;
\* a returned count equal to MAXIT decides nothing, because the exit test is
\* not evaluated after the last permitted iteration.
C11_BelowMaxitMeansConverged ==
  \A p \in Procs :
    (pc[p] = "done" /\ ret[p] < MAXIT) => FLeq(rdotr[p], TOL[p])

\* Solve has returned MAXIT although the last permitted iteration reached
\* rdotr <= TOL
C11_Witness ==
  \E p \in Procs :
    /\ pc[p] = "done"
    /\ MAXIT > 0
    /\ ret[p] = MAXIT
    /\ FLeq(rdotr[p], TOL[p])

\* the operations of rank p's stream that touch the accumulator
ReductionOps == {"set", "updateCG_r", "copyTo"}

\* number of pending operations named o in the stream q
Pending(q, o) == Cardinality({k \in 1..Len(q) : q[k].op = o})

\* an UpdateCG call of rank p has issued its reduction and has not yet
\* handed the host value to MPI_Allreduce
Unconsumed(p) ==
  /\ issued[p] # <<>>
  /\ issued[p][Len(issued[p])] # <<"Allreduce", "">>

\* C12: at most one reduction is in flight per solver, within one Solve and
\* across repeated Solve calls: the stream never holds more than one
\* accumulator reset, fused kernel or transfer, and when UpdateCG is about to
\* issue the next ones none is pending and the host value of the previous
\* call has been handed to the all-reduce.
C12_OneReductionInFlight ==
  \A p \in Procs :
    /\ \A o \in ReductionOps : Pending(queue[p], o) <= 1
    /\ pc[p] = "UpdateCG" =>
         /\ \A o \in ReductionOps : Pending(queue[p], o) = 0
         /\ ~Unconsumed(p)
    /\ pc[p] \notin {"UpdateCG", "waitFor"} =>
         \A o \in ReductionOps : Pending(queue[p], o) = 0

C12_Witness ==
  \E p \in Procs :
    /\ nsolve[p] = 2 /\ iter[p] = 1 /\ pc[p] = "UpdateCG"
    /\ issued[p] # <<>>

\* the steps of one UpdateCG call in the order the specification gives them
UpdateCG_Order ==
  << <<"set", "o_tmprdotr">>, <<"updateCG_r", "o_r">>, <<"copyTo", "tmprdotr">>,
     <<"tag", "">>, <<"axpy", "o_x">>, <<"waitFor", "">>, <<"Allreduce", "">> >>

\* C13: within each UpdateCG call the host's steps are, in this order: reset
\* of the accumulator, fused kernel, start of the transfer, stream tag,
\* solution update, wait on the tag, all-reduce.  The steps taken so far are
\* always a prefix of that order, the first five are issued before the host
\* waits, and the stream holds what is still pending of them in that order.
C13_IssueOrder ==
  \A p \in Procs :
    /\ Len(issued[p]) <= Len(UpdateCG_Order)
    /\ \A k \in 1..Len(issued[p]) : issued[p][k] = UpdateCG_Order[k]
    /\ pc[p] = "waitFor" => Len(issued[p]) = 5
    /\ pc[p] = "Allreduce" => Len(issued[p]) = 6
    /\ pc[p] = "Allreduce_wait" => Len(issued[p]) = 7
    /\ pc[p] = "waitFor" =>
         \E k \in 0..5 :
           Issued(queue[p]) = SubSeq(UpdateCG_Order, k + 1, 5)

C13_Witness ==
  \E p \in Procs :
    /\ pc[p] = "Allreduce_wait"
    /\ issued[p] = UpdateCG_Order
    /\ queue[p] # <<>>

\* rank p is inside trial iter[p] of the loop, past the update of beta
InTrial(p) ==
  pc[p] \in {"innerProd", "innerProd_wait", "UpdateCG", "waitFor",
             "Allreduce", "Allreduce_wait"}

\* rank p is inside trial iter[p] of the loop, past the update of alpha
PastAlpha(p) ==
  pc[p] \in {"UpdateCG", "waitFor", "Allreduce", "Allreduce_wait"}

\* the inner product over comm of the o_p and o_Ap the ranks hold
GlobalPAp ==
  SumUpTo([q \in Procs |-> Dot(N, dev[q].o_p, dev[q].o_Ap)], NP)

\* C14: rdotrHist[k+1] is the rdotr current at the start of iteration k (for
\* k >= 1 the value the fused update of iteration k-1 returned).  In
\* iteration 0 beta is 0, in iteration k >= 1 beta is rdotrHist[k+1] /
\* rdotrHist[k]; alpha is rdotrHist[k+1] / pAp with pAp the inner product of
\* that iteration's p and A*p; and the operator is applied to p only after
\* p <- r + beta*p: in the stream the operator on o_p directly follows that
\* update, and once both have run o_Ap is A times the updated o_p.
C14_Recurrence ==
  \A p \in Procs :
    /\ InTrial(p) =>
         /\ Len(rdotrHist[p]) = iter[p] + 1
         /\ beta[p] = IF iter[p] = 0 THEN Zero
                      ELSE FDiv(rdotrHist[p][iter[p] + 1], rdotrHist[p][iter[p]])
    /\ PastAlpha(p) =>
         alpha[p] = FDiv(rdotrHist[p][iter[p] + 1], pAp[p])
    /\ pc[p] = "UpdateCG" => pAp[p] = GlobalPAp
    /\ \A k \in 1..Len(queue[p]) :
         (queue[p][k].op = "Operator" /\ queue[p][k].X = "o_p" /\ k > 1)
           => queue[p][k - 1] = OpAxpy(One, "o_r", beta[p], "o_p")
    /\ (pc[p] = "innerProd" /\ queue[p] = <<>>) =>
         \A i \in Owned :
           dev[p].o_Ap[i] = FMul(Coef(opKind, p, i), dev[p].o_p[i])

C14_Witness ==
  \E p \in Procs :
    /\ iter[p] = 1 /\ pc[p] = "UpdateCG"
    /\ beta[p] # Zero /\ beta[p] # One /\ IsFinite(beta[p])
    /\ IsFinite(alpha[p]) /\ alpha[p] # Zero

\* the k-th collective of a Solve: the initial norm, then per iteration one
\* inner product and one all-reduce
NthCollective(k) ==
  IF k = 1 THEN "norm2" ELSE IF k % 2 = 0 THEN "innerProd" ELSE "Allreduce"

Blocked(p) == pc[p] \in {"norm2_wait", "innerProd_wait", "Allreduce_wait"}

\* C16: the ranks of one Solve stay in lockstep.  Every rank enters the same
\* collectives in the same order (norm2, then innerProd and Allreduce per
\* iteration), sees the same rdotr at every trial and the same TOL, and
\* returns the same count after 1 + 2*count collectives; a rank that has
\* returned has entered every collective any other rank has entered, so a
\* rank waiting in a collective then has its result; and as long as a rank
\* has not returned, some rank is not waiting for a collective to complete.
C16_Lockstep ==
  /\ \A p \in Procs :
       \A k \in 1..Len(collLog[p]) : collLog[p][k] = NthCollective(k)
  /\ \A p, q \in Procs :
       /\ \A k \in 1..Len(rdotrHist[p]) :
            k <= Len(rdotrHist[q]) => rdotrHist[p][k] = rdotrHist[q][k]
       /\ (rdotrHist[p] # <<>> /\ rdotrHist[q] # <<>>) => TOL[p] = TOL[q]
       /\ pc[p] = "done" =>
            /\ Len(collLog[p]) = 1 + 2 * ret[p]
            /\ Len(collLog[q]) <= Len(collLog[p])
            /\ Blocked(q) => mailbox[q] # None
            /\ pc[q] = "done" => ret[q] = ret[p]
  /\ (\E p \in Procs : pc[p] # "done") =>
       \E p \in Procs : pc[p] # "done" /\ (Blocked(p) => mailbox[p] # None)

C16_Witness ==
  /\ MAXIT = 2
  /\ \A p \in Procs : pc[p] = "done" /\ ret[p] = 1 /\ Len(collLog[p]) = 3
  /\ \E p, q \in Procs : r0[p] # r0[q]

\* rank p has returned from a later Solve call that was given the operator,
\* x, r, tolerance and iteration limit of the first call on the fresh solver
RepeatedSameInputs(p) ==
  /\ pc[p] = "done" /\ queue[p] = <<>>
  /\ nsolve[p] > 1 /\ nsolve[p] % 2 = 1

\* C17: a Solve on a solver that has already run other Solve calls returns
\* the same count and leaves the same x and r as the Solve with the same
\* operator, x, r, tolerance and iteration limit did on the fresh solver.
C17_RepeatedSolveSameResult ==
  \A p \in Procs :
    RepeatedSameInputs(p) =>
      /\ ret[p] = ret1[p]
      /\ dev[p].o_x = x1[p]
      /\ dev[p].o_r = r1[p]

\* the same when the scratch vector o_p held only finite values at the call
C17_FiniteScratchSameResult ==
  \A p \in Procs :
    (RepeatedSameInputs(p) /\ \A i \in Owned : IsFinite(p0[p][i])) =>
      /\ ret[p] = ret1[p]
      /\ dev[p].o_x = x1[p]
      /\ dev[p].o_r = r1[p]

\* the halo entries [N, N+Nhalo) of a vector
Halo == (N + 1)..Ntotal

\* C18: Solve and UpdateCG update and reduce only the first N entries: the
\* halo entries of x, r and p keep the values they had at the call, whatever
\* has been issued and run so far, and the reduced rdotr is the squared norm
\* of the owned entries alone.
C18_HaloUntouched ==
  \A p \in Procs :
    /\ \A i \in Halo :
         /\ dev[p].o_x[i] = x0[p][i]
         /\ dev[p].o_r[i] = r0[p][i]
         /\ dev[p].o_p[i] = Zero
    /\ rdotrHist[p] # <<>> => rdotrHist[p][1] = InitialRdotr

C18_Witness ==
  \E p \in Procs :
    /\ pc[p] = "done" /\ queue[p] = <<>> /\ ret[p] = 2
    /\ Halo # {}
    /\ \E i \in Owned :
         /\ dev[p].o_x[i] # x0[p][i] /\ IsFinite(dev[p].o_x[i])
         /\ dev[p].o_r[i] # r0[p][i]
         /\ dev[p].o_p[i] # Zero

(***************************************************************************)
(* Properties of the block count                                           *)
(***************************************************************************)
\* ceil(n/CG_BLOCKSIZE) over the integers
CeilBlocks(n) ==
  (n \div CG_BLOCKSIZE) + (IF n % CG_BLOCKSIZE = 0 THEN 0 ELSE 1)

\* C15: Nblocks = min(ceil(N/1024), 1024) for every N >= 0: it never exceeds
\* 1024, it is at least 1 whenever N >= 1, and beyond N = 1024*1024 it stays
\* at the cap.
C15_BlockCount ==
  pcNB = "ret" =>
    /\ Nblocks = (IF CeilBlocks(nbN) > CG_BLOCKSIZE THEN CG_BLOCKSIZE
                  ELSE CeilBlocks(nbN))
    /\ Nblocks <= CG_BLOCKSIZE
    /\ nbN >= 1 => Nblocks >= 1
    /\ nbN > CG_BLOCKSIZE * CG_BLOCKSIZE => Nblocks = CG_BLOCKSIZE

\* the same for the sizes whose rounding sum stays inside int
C15_BlockCountInRange ==
  (pcNB = "ret" /\ nbN <= INT_MAX - (CG_BLOCKSIZE - 1)) =>
    /\ Nblocks = (IF CeilBlocks(nbN) > CG_BLOCKSIZE THEN CG_BLOCKSIZE
                  ELSE CeilBlocks(nbN))
    /\ Nblocks <= CG_BLOCKSIZE
    /\ nbN >= 1 => Nblocks >= 1
    /\ nbN > CG_BLOCKSIZE * CG_BLOCKSIZE => Nblocks = CG_BLOCKSIZE

(***************************************************************************)
(* Properties of platform_t::DeviceConfig                                  *)
(***************************************************************************)
\* rank rk has run DeviceConfig in a run of several ranks with a thread
\* model that takes a device id
Configured(rk) ==
  /\ rk < size /\ pcDC[rk] = "ret"
  /\ size > 1
  /\ threadModel \in {"CUDA", "HIP", "OpenCL"}

\* the ranks of the run that share rank rk's host
OnHostOf(rk) == {n \in Ranks : n < size /\ hostname[n] = hostname[rk]}

\* C19: with more than one rank and a CUDA/HIP/OpenCL thread model, a rank's
\* localRank is the number of lower-numbered ranks on its host; with
\* deviceCount > 0 its device id is localRank when localRank < deviceCount
\* and localRank mod deviceCount otherwise, so it lies in [0, deviceCount);
\* and ranks on one host get pairwise distinct device ids whenever the host
\* has no more ranks than devices.
C19_DeviceIds ==
  \A rk \in Ranks :
    Configured(rk) =>
      LET cnt == deviceCount[hostname[rk]]
      IN  /\ localRank[rk] = Cardinality({n \in OnHostOf(rk) : n < rk})
          /\ cnt > 0 =>
               /\ device_id[rk] = (IF localRank[rk] < cnt THEN localRank[rk]
                                   ELSE localRank[rk] % cnt)
               /\ device_id[rk] >= 0 /\ device_id[rk] < cnt
          /\ Cardinality(OnHostOf(rk)) <= cnt =>
               \A n \in OnHostOf(rk) :
                 (Configured(n) /\ n # rk) => device_id[n] # device_id[rk]

C19_Witness ==
  \E rk, n \in Ranks :
    /\ Configured(rk) /\ Configured(n) /\ n < rk
    /\ hostname[n] = hostname[rk]
    /\ deviceCount[hostname[rk]] > 0
    /\ localRank[rk] >= deviceCount[hostname[rk]]
    /\ device_id[rk] = device_id[n]

(***************************************************************************)
(* Properties of hipBone_t::LocalOperator                                  *)
(***************************************************************************)
\* C7: once the launches have run, every position below n of the local-only
\* list and every position below g of the halo-dependent list has been
\* processed exactly once and no other position at all; the first launch on
\* the local-only list covers [0, n/2) and the second [n/2, n).
C7_EachElementOnce ==
  LET n == NlocalGatherElements
      g == NglobalGatherElements
      h == n \div 2
  IN  (pcLO = "ret" /\ executed = Len(launches)) =>
        /\ \A k \in ListPos : hitsLocal[k] = (IF k < n THEN 1 ELSE 0)
        /\ \A k \in ListPos : hitsGlobal[k] = (IF k < g THEN 1 ELSE 0)
        /\ \A j \in 1..Len(launches) :
             /\ launches[j].batch = "first" =>
                  Covered(launches[j]) = 0..(h - 1)
             /\ launches[j].batch = "second" =>
                  /\ launches[j].count = n - h
                  /\ Covered(launches[j]) = h..(n - 1)
             /\ launches[j].batch = "global" =>
                  Covered(launches[j]) = 0..(g - 1)

\* all three launches have run on an odd local-only count
C7_Witness ==
  /\ pcLO = "ret"
  /\ executed = 3
  /\ NlocalGatherElements = 5
  /\ NglobalGatherElements >= 1

\* C8: the launches are issued in the order first half, halo-dependent,
\* second half; a halo-dependent launch is preceded by the first-half launch
\* whenever the first half is non-empty.
C8_DispatchOrder ==
  LET ord(b) == CASE b = "first" -> 1 [] b = "global" -> 2 [] b = "second" -> 3
  IN  /\ \A i, j \in 1..Len(launches) :
           i < j => ord(launches[i].batch) < ord(launches[j].batch)
      /\ \A j \in 1..Len(launches) :
           (launches[j].batch = "global" /\ NlocalGatherElements \div 2 > 0) =>
             (j = 2 /\ launches[1].batch = "first")

\* all three batches were issued
C8_Witness ==
  /\ pcLO = "ret"
  /\ Len(launches) = 3
  /\ launches[2].batch = "global"

\* C9: no launch has an element count of zero; the number of launches is
\* the number of non-empty batches; the entries of an empty list are never
\* processed.
C9_NoEmptyLaunch ==
  LET n == NlocalGatherElements
      g == NglobalGatherElements
      one(b) == IF b THEN 1 ELSE 0
  IN  /\ \A j \in 1..Len(launches) : launches[j].count > 0
      /\ pcLO = "ret" =>
           Len(launches) = one(n >= 2) + one(g >= 1) + one(n >= 1)
      /\ n = 0 => \A k \in ListPos : hitsLocal[k] = 0
      /\ g = 0 => \A k \in ListPos : hitsGlobal[k] = 0

\* a single local-only element: the first half is skipped, the second half
\* is the only launch
C9_Witness ==
  /\ pcLO = "ret"
  /\ NlocalGatherElements = 1
  /\ NglobalGatherElements = 0
  /\ Len(launches) = 1
  /\ launches[1].batch = "second"
  /\ executed = 1

=============================================================================
